---- MODULE Spec2Model ----
(***************************************************************************)
(* The image-to-wireframe-cube animation of benjaminnsmith/ndl.            *)
(*                                                                         *)
(* Two variants of the program are modelled, selected by `variant`:        *)
(*   "part_000"        src/unnamed/part_000 (async init, guarded animate)  *)
(*   "cube_animation"  src/cube-animation.js lines 1-329                   *)
(* (lines 331-574 of cube-animation.js repeat the second variant's         *)
(* processImage / updateCubes / createCube / animate verbatim).            *)
(*                                                                         *)
(* JavaScript numbers are modelled as exact rationals <<n, d>> in lowest   *)
(* terms with d > 0; the Float32Array store of the depth map is modelled   *)
(* by Fround, IEEE-754 round-to-nearest-even to 24 significant bits.       *)
(***************************************************************************)
EXTENDS Integers, Sequences, FiniteSets, TLC

VARIABLES
  variant,        \* which source file runs on the page
  phase,          \* position of initialization: loading, waiting, ready, aborted
  dom,            \* required containers present in the document
  defined,        \* which of scene, camera, renderer, controls are assigned
  wired,          \* GUI onChange handlers and the file-input listener are installed
  raf,            \* an animation-frame callback for animate is scheduled
  log,            \* diagnostics written with console.error
  params,         \* the params object
  imageData,      \* ImageData of the last processed image, NullImage while null
  depthMap,       \* Float32Array of luminances, Null while null
  cubes,          \* the cubes array
  sceneChildren,  \* ids of the cube objects attached to the scene
  created,        \* number of cube objects constructed so far (object identity)
  inflight,       \* uploads whose FileReader or Image has not completed yet
  uploads,        \* number of files selected so far
  edits,          \* number of GUI edits so far
  frames,         \* number of display-refresh ticks delivered so far
  frameOutcome,   \* what the latest tick did: none, skipped, threw, rendered
  runs,           \* history: inputs and output of the two latest sampling runs
  lastFile        \* history: the file of the latest selection, Null before any

vars == <<variant, phase, dom, defined, wired, raf, log, params, imageData,
          depthMap, cubes, sceneChildren, created, inflight, uploads, edits,
          frames, frameOutcome, runs, lastFile>>

(***************************************************************************)
(* Bounds of the model.                                                    *)
(***************************************************************************)
MaxUploads == 2
MaxEdits == 1
MaxFrames == 1
MaxDim == 2

(***************************************************************************)
(* Exact rational arithmetic standing for JavaScript number arithmetic.    *)
(***************************************************************************)
Abs(n) == IF n < 0 THEN -n ELSE n

RECURSIVE GCD(_, _)
GCD(a, b) == IF b = 0 THEN a ELSE GCD(b, a % b)

Rat(n, d) == LET g == GCD(Abs(n), d) IN <<n \div g, d \div g>>

RAdd(p, q) == Rat(p[1] * q[2] + q[1] * p[2], p[2] * q[2])

RSub(p, q) == Rat(p[1] * q[2] - q[1] * p[2], p[2] * q[2])

RMul(p, q) == Rat(p[1] * q[1], p[2] * q[2])

RDivInt(p, n) == Rat(p[1], p[2] * n)

RGreater(p, q) == p[1] * q[2] > q[1] * p[2]

RInt(n) == <<n, 1>>

\* Math.floor
Floor(q) == q[1] \div q[2]

\* Math.floor(n * q) for an integer n
FloorMul(n, q) == (n * q[1]) \div q[2]

RECURSIVE Pow2(_)
Pow2(k) == IF k = 0 THEN 1 ELSE 2 * Pow2(k - 1)

\* Normalise n/d (0 < n <= d) to a leading one bit: <<n * 2^k, k>> with n * 2^k >= d.
RECURSIVE Lead(_, _, _)
Lead(n, d, k) == IF n >= d THEN <<n, k>> ELSE Lead(2 * n, d, k + 1)

\* Long division: `count` further mantissa bits of r/d, <<mantissa, remainder>>.
RECURSIVE Bits(_, _, _, _)
Bits(r, d, count, acc) ==
  IF count = 0 THEN <<acc, r>>
  ELSE IF 2 * r >= d THEN Bits(2 * r - d, d, count - 1, 2 * acc + 1)
       ELSE Bits(2 * r, d, count - 1, 2 * acc)

\* The value a Float32Array element holds after q (0 <= q <= 1) is stored in it:
\* q rounded to the nearest number with a 24-bit significand, ties to even.
Fround(q) ==
  IF q[1] = 0 THEN <<0, 1>>
  ELSE LET l == Lead(q[1], q[2], 0)
           b == Bits(l[1] - q[2], q[2], 23, 1)
           up == 2 * b[2] > q[2] \/ (2 * b[2] = q[2] /\ b[1] % 2 = 1)
       IN Rat(IF up THEN b[1] + 1 ELSE b[1], Pow2(l[2] + 23))

Range(s) == {s[i] : i \in 1..Len(s)}

(***************************************************************************)
(* Inputs: the images a user can select, the values the GUI can set.       *)
(***************************************************************************)
White == <<255, 255, 255, 255>>
Light == <<204, 204, 204, 255>>
Grey == <<51, 51, 51, 255>>
Red == <<255, 0, 0, 255>>
Black == <<0, 0, 0, 255>>

Palette == {White, Light, Grey, Red, Black}

\* A decoded image: width, height and its pixels in row-major order.
Image(w, h, px) == [width |-> w, height |-> h, pixels |-> px]

\* Two image files: 4 x 4 and 4 x 3, mostly black with a few brighter pixels.
Files ==
  { Image(4, 4, <<Black, Black, Black, Black,
                  Black, Light, Black, Grey,
                  Black, Black, White, Black,
                  Black, Red,   Black, Black>>),
    Image(4, 3, <<Black, Black, Black, Black,
                  Black, White, Light, Black,
                  Black, Black, Black, Red>>) }

DensityValues == {Rat(0, 1), Rat(1, 8), Rat(1, 2)}
ThresholdValues == {Rat(1, 5), Rat(1, 2), Rat(1, 1)}
RotationSpeedValues == {Rat(1, 2), Rat(2, 1)}
PulseStrengthValues == {Rat(1, 2), Rat(1, 1)}
ZDepthValues == {Rat(1, 1), Rat(2, 1)}
CubeSizeValues == {Rat(1, 1), Rat(2, 1)}
ColorModes == {"monochrome", "sampled", "custom"}
CustomColors == {"#ffffff", "#ff0000"}

\* Values of Math.sin(time * 2) at the ticks the display delivers.
SinValues == {Rat(-1, 1), Rat(1, 2)}

\* Math.random: the n-th draw (n = 0, 1, ...) of the stream the engine is in.
Seeds == {0, 1}
MathRandom(seed, n) == Rat((seed + 3 * n) % 4, 4)

Null == <<>>
NullImage == [width |-> 0, height |-> 0, data |-> <<>>]

(***************************************************************************)
(* The module-scoped state after the script has been evaluated.            *)
(***************************************************************************)
DefaultParams ==
  [cubeDensity |-> Rat(1, 2), rotationSpeed |-> Rat(1, 2),
   pulseStrength |-> Rat(1, 2), zDepthMultiplier |-> Rat(1, 1),
   cubeSize |-> Rat(1, 1), contrastThreshold |-> Rat(1, 2),
   colorMode |-> "monochrome", customColor |-> "#ffffff"]

Init ==
  /\ variant \in {"part_000", "cube_animation"}
  /\ phase = "loading"
  /\ dom \in SUBSET {"work-section", "canvas"}
  /\ defined = {}
  /\ wired = FALSE
  /\ raf = FALSE
  /\ log = {}
  /\ params = DefaultParams
  /\ imageData = NullImage
  /\ depthMap = Null
  /\ cubes = <<>>
  /\ sceneChildren = {}
  /\ created = 0
  /\ inflight = {}
  /\ uploads = 0
  /\ edits = 0
  /\ frames = 0
  /\ frameOutcome = "none"
  /\ runs = <<>>
  /\ lastFile = Null

(***************************************************************************)
(* processImage: the depth extractor.                                      *)
(***************************************************************************)
\* ctx.getImageData: the RGBA bytes of the drawn image, row-major.
GetImageData(image) ==
  [width |-> image.width, height |-> image.height,
   data |-> <<>> \o [i \in 1..(4 * image.width * image.height) |->
                       image.pixels[((i - 1) \div 4) + 1][((i - 1) % 4) + 1]]]

\* Variant of the loop that steps through the bytes three at a time.
ExtractDepthStride3(img) ==
  <<>> \o [j \in 1..(img.width * img.height) |->
            LET i == 3 * (j - 1)
            IN Fround(Rat(img.data[i + 1] + img.data[i + 2] + img.data[i + 3],
                          255 * 3))]

\* new Float32Array(width * height) filled by the loop over imageData.data:
\* element j-1 (JavaScript index) receives (r + g + b) / (255 * 3).
ExtractDepth(img) ==
  <<>> \o [j \in 1..(img.width * img.height) |->
            LET i == 4 * (j - 1)
            IN IF i < Len(img.data)
               THEN Fround(Rat(img.data[i + 1] + img.data[i + 2] + img.data[i + 3],
                               255 * 3))
               ELSE <<0, 1>>]

(***************************************************************************)
(* createCube and updateCubes: the grid sampler.                           *)
(***************************************************************************)
\* THREE.Color of a CSS hex string.
CssColor(str) ==
  IF str = "#ffffff" THEN <<Rat(1, 1), Rat(1, 1), Rat(1, 1)>>
  ELSE <<Rat(1, 1), Rat(0, 1), Rat(0, 1)>>

NaN == <<0, 0>>

\* imageData.data[k] / 255 for a JavaScript index k; undefined / 255 is NaN.
Channel(img, k) ==
  IF k >= 0 /\ k < Len(img.data) THEN Rat(img.data[k + 1], 255) ELSE NaN

\* The colour of the material createCube builds.
MaterialColor(depth, p, img) ==
  IF p.colorMode = "monochrome" THEN <<Rat(1, 1), Rat(1, 1), Rat(1, 1)>>
  ELSE IF p.colorMode = "sampled" /\ (variant = "cube_animation" \/ img # NullImage)
  THEN LET index == Floor(RMul(depth, Rat(Len(img.data), 4)))
       IN <<Channel(img, index * 4), Channel(img, index * 4 + 1),
            Channel(img, index * 4 + 2)>>
  ELSE CssColor(p.customColor)

\* The factor applied to (Math.random() - 0.5) for userData.rotationSpeed.
VelocityFactor(p) ==
  IF variant = "part_000" THEN Rat(2, 100) ELSE p.rotationSpeed

\* userData.rotationSpeed of the n-th cube (n = 0, 1, ...) of a rebuild: three
\* successive Math.random() draws.
RotationVelocity(p, seed, n) ==
  [a \in 1..3 |->
     RMul(RSub(MathRandom(seed, 3 * n + a - 1), Rat(1, 2)), VelocityFactor(p))]

\* Variant of createCube that also draws the initial orientation at random.
createCubeTumbled(depth, p, img, seed, n, id) ==
  [id |-> id,
   color |-> MaterialColor(depth, p, img),
   scale |-> <<p.cubeSize, p.cubeSize, p.cubeSize>>,
   rotation |-> <<MathRandom(seed, 3 * n), MathRandom(seed, 3 * n + 1),
                  MathRandom(seed, 3 * n + 2)>>,
   position |-> <<Rat(0, 1), Rat(0, 1), Rat(0, 1)>>,
   rotationSpeed |-> RotationVelocity(p, seed, n)]

createCube(depth, p, img, seed, n, id) ==
  [id |-> id,
   color |-> MaterialColor(depth, p, img),
   scale |-> <<p.cubeSize, p.cubeSize, p.cubeSize>>,
   rotation |-> <<Rat(0, 1), Rat(0, 1), Rat(0, 1)>>,
   position |-> <<Rat(0, 1), Rat(0, 1), Rat(0, 1)>>,
   rotationSpeed |-> RotationVelocity(p, seed, n)]

GridScale == 20

gridSizeOf(p) == Floor(RMul(RInt(GridScale), p.cubeDensity))

\* The index into depthMap sampled for grid cell (x, y).
SampleIndex(x, y, g, img) ==
  LET stepX == <<img.width, g>>
      stepY == <<img.height, g>>
  IN FloorMul(y, stepY) * img.width + FloorMul(x, stepX)

\* depthMap[index]; undefined is modelled as NaN, which compares false.
DepthAt(dm, index) ==
  IF index >= 0 /\ index < Len(dm) THEN dm[index + 1] ELSE NaN

\* Variant of the test that thresholds the depth scaled by zDepthMultiplier.
ExceedsThresholdScaled(depth, p) ==
  depth # NaN /\ RGreater(RMul(depth, p.zDepthMultiplier), p.contrastThreshold)

\* Variant of the test with >= in place of >.
ExceedsOrEqualsThreshold(depth, p) ==
  depth # NaN /\ ~RGreater(p.contrastThreshold, depth)

ExceedsThreshold(depth, p) ==
  depth # NaN /\ RGreater(depth, p.contrastThreshold)

\* cube.position as assigned by updateCubes.
CubePosition(x, y, g, depth, p) ==
  <<RDivInt(RSub(RInt(x), Rat(g, 2)), 2),
    RDivInt(RSub(RInt(y), Rat(g, 2)), 2),
    RMul(depth, p.zDepthMultiplier)>>

\* The inner loop of updateCubes, for (let y = 0; y < gridSize; y++), in column
\* x: the cells <<x, y>> whose sampled depth passes the test, in loop order.
ColumnHits(x, g, p, img, dm) ==
  LET hit(c) == ExceedsThreshold(DepthAt(dm, SampleIndex(c[1], c[2], g, img)), p)
  IN SelectSeq([i \in 1..g |-> <<x, i - 1>>], hit)

\* The outer loop, for (let x = ...; x < gridSize; x++), from column x on.
RECURSIVE HitCells(_, _, _, _, _)
HitCells(x, g, p, img, dm) ==
  IF x >= g THEN <<>>
  ELSE ColumnHits(x, g, p, img, dm) \o HitCells(x + 1, g, p, img, dm)

\* The cube created for the n-th passing cell (n = 0, 1, ...).
CubeAt(c, n, g, p, img, dm, seed, firstId) ==
  LET depth == DepthAt(dm, SampleIndex(c[1], c[2], g, img))
  IN [createCube(depth, p, img, seed, n, firstId + n + 1)
        EXCEPT !.position = CubePosition(c[1], c[2], g, depth, p)]

\* The cubes one run of updateCubes creates, in creation order.
SampleGrid(p, img, dm, seed, firstId) ==
  LET g == gridSizeOf(p)
      cells == HitCells(0, g, p, img, dm)
  IN <<>> \o [n \in 1..Len(cells) |->
               CubeAt(cells[n], n - 1, g, p, img, dm, seed, firstId)]

\* Variant of the clearing step that leaves the array as it is.
KeptCubes(cs) == cs

\* The cubes array left by the clearing step of updateCubes.
ClearedCubes(cs) == <<>>

\* The record kept of one sampling run: what it read and what it created.
RunRecord(p, img, dm, new) ==
  [params |-> p, imageData |-> img, depthMap |-> dm, cubes |-> new]

\* The two latest sampling runs once one more has completed.
Remember(rs, run) ==
  IF Len(rs) = 0 THEN <<run>> ELSE <<rs[Len(rs)], run>>

\* Variant of the depth-map guard that never returns.
DepthMapNeverMissing(dm) == FALSE

\* if (!depthMap) return;
DepthMapMissing(dm) == dm = Null

\* Variant of the clearing step that leaves the old cubes attached to the scene.
SceneNotCleared(children, cs) == children

\* cubes.forEach(cube => scene.remove(cube)): the scene's children afterwards.
SceneAfterClear(children, cs) == children \ {cs[i].id : i \in 1..Len(cs)}

\* updateCubes: the new values of cubes, the scene's children and the object
\* count, with the history of sampling runs.
updateCubes(p, img, dm, seed) ==
  IF variant = "part_000" /\ "scene" \notin defined
  THEN [cubes |-> cubes, children |-> sceneChildren, created |-> created,
        runs |-> runs]
  ELSE LET removed == SceneAfterClear(sceneChildren, cubes)
           kept == ClearedCubes(cubes)
       IN IF DepthMapMissing(dm)
          THEN [cubes |-> kept, children |-> removed, created |-> created,
                runs |-> runs]
          ELSE LET new == SampleGrid(p, img, dm, seed, created)
               IN [cubes |-> kept \o new,
                   children |-> removed \cup {new[i].id : i \in 1..Len(new)},
                   created |-> created + Len(new),
                   runs |-> Remember(runs, RunRecord(p, img, dm, new))]

(***************************************************************************)
(* animate: the per-frame update.                                          *)
(***************************************************************************)
\* Whether animate gets past its early return.
animateProceeds(def, cs) ==
  IF variant = "part_000"
  THEN {"scene", "camera", "renderer"} \subseteq def /\ Len(cs) # 0
  ELSE TRUE

\* What one run of animate does after scheduling the next frame: it returns
\* early, or controls.update() throws on an undefined controls, or it renders.
animateOutcome(def, cs) ==
  IF ~animateProceeds(def, cs) THEN "skipped"
  ELSE IF "controls" \in def THEN "rendered"
  ELSE "threw"

\* The increment of cube.rotation on one axis.
RotationStep(c, p, a) ==
  IF variant = "part_000"
  THEN RMul(c.rotationSpeed[a], p.rotationSpeed)
  ELSE c.rotationSpeed[a]

\* const scale = 1 + Math.sin(time * 2) * params.pulseStrength [* 0.2]
PulseScale(p, sin) ==
  IF variant = "part_000"
  THEN RAdd(RInt(1), RMul(RMul(sin, p.pulseStrength), Rat(2, 10)))
  ELSE RAdd(RInt(1), RMul(sin, p.pulseStrength))

\* The value passed three times to cube.scale.set.
FrameScale(p, sin) ==
  IF variant = "part_000"
  THEN RMul(PulseScale(p, sin), p.cubeSize)
  ELSE PulseScale(p, sin)

\* One iteration of cubes.forEach in animate; scale is the value of
\* FrameScale(params, sin), which is the same for every cube of the frame.
animateCube(c, p, scale) ==
  [c EXCEPT !.rotation = <<RAdd(c.rotation[1], RotationStep(c, p, 1)),
                           RAdd(c.rotation[2], RotationStep(c, p, 2)),
                           RAdd(c.rotation[3], RotationStep(c, p, 3))>>,
            !.scale = <<scale, scale, scale>>]

\* The cubes array after one run of animate.
animateCubes(def, cs, p, sin) ==
  IF animateProceeds(def, cs)
  THEN LET scale == FrameScale(p, sin)
       IN <<>> \o [i \in 1..Len(cs) |-> animateCube(cs[i], p, scale)]
  ELSE cs

(***************************************************************************)
(* Initialization.                                                         *)
(***************************************************************************)
RequiredElements == {"work-section", "canvas"}
SceneObjects == {"scene", "camera", "renderer", "controls"}

\* A library script fails to load.
\* part_000: loadScripts catches and returns false, init logs and returns.
\* cube_animation: the Promise.all rejects into the trailing catch.
scriptsFail ==
  /\ phase = "loading"
  /\ phase' = "aborted"
  /\ log' = log \cup (IF variant = "part_000"
                      THEN {"Error loading scripts:", "Failed to load required scripts"}
                      ELSE {"Error loading scripts:"})
  /\ UNCHANGED <<variant, dom, defined, wired, raf, params, imageData, depthMap,
                 cubes, sceneChildren, created, inflight, uploads, edits, frames,
                 frameOutcome,
                 runs, lastFile>>

\* The rest of init once scripts and containers are there, followed by the
\* first, direct call of animate.
initCompletes ==
  /\ phase' = "ready"
  /\ defined' = SceneObjects
  /\ wired' = TRUE
  /\ raf' = TRUE
  /\ frameOutcome' = animateOutcome(SceneObjects, cubes)
  /\ UNCHANGED <<log, params, imageData, depthMap, cubes, sceneChildren, created,
                 inflight, uploads, edits, frames,
                 runs, lastFile>>

\* cube_animation: init returns early on a missing container; animate() is
\* called all the same and its exception lands in the trailing catch.
initReturnsEarly ==
  /\ phase' = "aborted"
  /\ defined' = IF "work-section" \in dom THEN {"scene"} ELSE {}
  /\ raf' = TRUE
  /\ frameOutcome' = animateOutcome(defined', cubes)
  /\ log' = log \cup {IF "work-section" \in dom
                      THEN "Canvas container not found"
                      ELSE "Work section not found"}
              \cup (IF animateOutcome(defined', cubes) = "threw"
                    THEN {"Error loading scripts:"} ELSE {})
  /\ UNCHANGED <<wired, params, imageData, depthMap, cubes, sceneChildren, created,
                 inflight, uploads, edits, frames,
                 runs, lastFile>>

\* All library scripts have loaded.
scriptsLoaded ==
  /\ phase = "loading"
  /\ IF RequiredElements \subseteq dom
     THEN initCompletes
     ELSE IF variant = "part_000"
     THEN /\ phase' = "waiting"        \* waitForElement's promise stays pending
          /\ UNCHANGED <<defined, wired, raf, log, params, imageData, depthMap,
                         cubes, sceneChildren, created, inflight, uploads, edits,
                         frames, frameOutcome,
                 runs, lastFile>>
     ELSE initReturnsEarly
  /\ UNCHANGED <<variant, dom,
                 runs, lastFile>>

\* The page inserts a container; part_000's MutationObserver resolves the wait.
domInsert(el) ==
  /\ el \notin dom
  /\ dom' = dom \cup {el}
  /\ IF variant = "part_000" /\ phase = "waiting" /\ RequiredElements \subseteq dom'
     THEN initCompletes
     ELSE UNCHANGED <<phase, defined, wired, raf, log, params, imageData, depthMap,
                      cubes, sceneChildren, created, inflight, uploads, edits,
                      frames, frameOutcome,
                 runs, lastFile>>
  /\ UNCHANGED variant

(***************************************************************************)
(* Image upload: handleFileUpload, reader.onload, img.onload.              *)
(***************************************************************************)
\* The change event of the file input with a file selected: a new FileReader
\* starts reading it.
handleFileUpload(file) ==
  /\ wired
  /\ uploads < MaxUploads
  /\ uploads' = uploads + 1
  /\ lastFile' = file
  /\ inflight' = inflight \cup {[id |-> uploads + 1, image |-> file, stage |-> "reading"]}
  /\ UNCHANGED <<variant, phase, dom, defined, wired, raf, log, params, imageData,
                 depthMap, cubes, sceneChildren, created, edits, frames, frameOutcome,
                 runs>>

\* The change event with no file selected (e.target.files[0] undefined).
handleFileUploadEmpty ==
  /\ wired
  /\ UNCHANGED vars

\* reader.onload: a new Image starts decoding the data URL.
readerOnload(u) ==
  /\ u \in inflight
  /\ u.stage = "reading"
  /\ inflight' = (inflight \ {u}) \cup {[u EXCEPT !.stage = "decoding"]}
  /\ UNCHANGED <<variant, phase, dom, defined, wired, raf, log, params, imageData,
                 depthMap, cubes, sceneChildren, created, uploads, edits, frames,
                 frameOutcome,
                 runs, lastFile>>

\* img.onload: processImage(img), which ends with updateCubes().
processImage(u, seed) ==
  /\ u \in inflight
  /\ u.stage = "decoding"
  /\ inflight' = inflight \ {u}
  /\ imageData' = GetImageData(u.image)
  /\ depthMap' = ExtractDepth(imageData')
  /\ LET r == updateCubes(params, imageData', depthMap', seed)
     IN /\ cubes' = r.cubes
        /\ sceneChildren' = r.children
        /\ created' = r.created
        /\ runs' = r.runs
  /\ UNCHANGED <<variant, phase, dom, defined, wired, raf, log, params, uploads,
                 edits, frames, frameOutcome, lastFile>>

(***************************************************************************)
(* GUI edits.  dat.GUI assigns the property, then calls the onChange       *)
(* handler if one was registered.                                          *)
(***************************************************************************)
\* An edit of a parameter whose controller has .onChange(updateCubes).
editAndRebuild(p, seed) ==
  /\ wired
  /\ edits < MaxEdits
  /\ edits' = edits + 1
  /\ params' = p
  /\ LET r == updateCubes(p, imageData, depthMap, seed)
     IN /\ cubes' = r.cubes
        /\ sceneChildren' = r.children
        /\ created' = r.created
        /\ runs' = r.runs
  /\ UNCHANGED <<variant, phase, dom, defined, wired, raf, log, imageData, depthMap,
                 inflight, uploads, frames, frameOutcome, lastFile>>

\* An edit of a parameter whose controller has no onChange handler.
editOnly(p) ==
  /\ wired
  /\ edits < MaxEdits
  /\ p # params
  /\ edits' = edits + 1
  /\ params' = p
  /\ UNCHANGED <<variant, phase, dom, defined, wired, raf, log, imageData, depthMap,
                 cubes, sceneChildren, created, inflight, uploads, frames,
                 frameOutcome,
                 runs, lastFile>>

setCubeDensity(v, seed) == editAndRebuild([params EXCEPT !.cubeDensity = v], seed)

setContrastThreshold(v, seed) ==
  editAndRebuild([params EXCEPT !.contrastThreshold = v], seed)

setRotationSpeed(v) == editOnly([params EXCEPT !.rotationSpeed = v])

\* Variant of the pulseStrength controller with .onChange(updateCubes).
setPulseStrengthRebuilding(v) ==
  \E seed \in Seeds : editAndRebuild([params EXCEPT !.pulseStrength = v], seed)

setPulseStrength(v) == editOnly([params EXCEPT !.pulseStrength = v])

setZDepthMultiplier(v) == editOnly([params EXCEPT !.zDepthMultiplier = v])

setCubeSize(v) == editOnly([params EXCEPT !.cubeSize = v])

setColorMode(v) == editOnly([params EXCEPT !.colorMode = v])

setCustomColor(v) == editOnly([params EXCEPT !.customColor = v])

(***************************************************************************)
(* A display-refresh tick runs the scheduled animate callback.             *)
(***************************************************************************)
animate(sin) ==
  /\ raf
  /\ frames < MaxFrames
  /\ frames' = frames + 1
  /\ cubes' = animateCubes(defined, cubes, params, sin)
  /\ frameOutcome' = animateOutcome(defined, cubes)
  /\ UNCHANGED <<variant, phase, dom, defined, wired, raf, log, params, imageData,
                 depthMap, sceneChildren, created, inflight, uploads, edits,
                 runs, lastFile>>

Next ==
  \/ scriptsFail
  \/ scriptsLoaded
  \/ \E el \in RequiredElements : domInsert(el)
  \/ \E f \in Files : handleFileUpload(f)
  \/ handleFileUploadEmpty
  \/ \E u \in inflight : readerOnload(u)
  \/ \E u \in inflight, seed \in Seeds : processImage(u, seed)
  \/ \E v \in DensityValues, seed \in Seeds : setCubeDensity(v, seed)
  \/ \E v \in ThresholdValues, seed \in Seeds : setContrastThreshold(v, seed)
  \/ \E v \in RotationSpeedValues : setRotationSpeed(v)
  \/ \E v \in PulseStrengthValues : setPulseStrength(v)
  \/ \E v \in ZDepthValues : setZDepthMultiplier(v)
  \/ \E v \in CubeSizeValues : setCubeSize(v)
  \/ \E v \in ColorModes : setColorMode(v)
  \/ \E v \in CustomColors : setCustomColor(v)
  \/ \E sin \in SinValues : animate(sin)

Spec == Init /\ [][Next]_vars

(***************************************************************************)
(* processImage on its own: every image of at most MaxDim x MaxDim pixels  *)
(* over the palette is decoded on a page whose density was set to 1/8.     *)
(***************************************************************************)
SmallImages ==
  UNION {{Image(w, h, px) : px \in [1..(w * h) -> Palette]} :
           w \in 1..MaxDim, h \in 1..MaxDim}

ExtractInit ==
  /\ variant \in {"part_000", "cube_animation"}
  /\ phase = "ready"
  /\ dom = RequiredElements
  /\ defined = SceneObjects
  /\ wired = TRUE
  /\ raf = TRUE
  /\ log = {}
  /\ params = [DefaultParams EXCEPT !.cubeDensity = Rat(1, 8)]
  /\ imageData = NullImage
  /\ depthMap = Null
  /\ cubes = <<>>
  /\ sceneChildren = {}
  /\ created = 0
  /\ \E image \in SmallImages :
       inflight = {[id |-> 1, image |-> image, stage |-> "decoding"]}
  /\ uploads = 1
  /\ edits = 1
  /\ frames = 0
  /\ frameOutcome = animateOutcome(SceneObjects, <<>>)
  /\ runs = <<>>
  /\ \E u \in inflight : lastFile = u.image

ExtractNext == \E u \in inflight, seed \in Seeds : processImage(u, seed)

SpecExtract == ExtractInit /\ [][ExtractNext]_vars

(***************************************************************************)
(* Properties.  The expected values are computed from the documented       *)
(* formulas, independently of the operators above.                         *)
(***************************************************************************)
Ids(cs) == {cs[i].id : i \in 1..Len(cs)}

\* Grid edge for density d: floor(20 d).
EdgeFor(d) == (20 * d[1]) \div d[2]

\* The grid cell a cube sits on, recovered from its position
\* ((x - e/2) * 0.5, (y - e/2) * 0.5).
CellOfCube(c, e) ==
  <<((4 * c.position[1][1]) \div c.position[1][2] + e) \div 2,
    ((4 * c.position[2][1]) \div c.position[2][2] + e) \div 2>>

CellPosition(cell, e) == <<Rat(2 * cell[1] - e, 4), Rat(2 * cell[2] - e, 4)>>

OnCell(c, e) ==
  LET cell == CellOfCube(c, e)
  IN /\ cell[1] \in 0..(e - 1)
     /\ cell[2] \in 0..(e - 1)
     /\ <<c.position[1], c.position[2]>> = CellPosition(cell, e)

CellsOf(cs, e) == {CellOfCube(cs[i], e) : i \in 1..Len(cs)}

\* Nearest-neighbour sample of the field for a cell:
\* field[floor(y * h / e) * w + floor(x * w / e)].
SampledDepth(field, w, h, cell, e) ==
  field[((cell[2] * h) \div e) * w + ((cell[1] * w) \div e) + 1]

Exceeds(v, t) == v[1] * t[2] > t[1] * v[2]

\* The grid cells whose sampled depth exceeds the threshold.
ExpectedCells(field, w, h, d, t) ==
  LET e == EdgeFor(d)
  IN {cell \in (0..(e - 1)) \X (0..(e - 1)) :
        Exceeds(SampledDepth(field, w, h, cell, e), t)}

SameKey(r1, r2) ==
  /\ r1.depthMap = r2.depthMap
  /\ r1.params.cubeDensity = r2.params.cubeDensity
  /\ r1.params.contrastThreshold = r2.params.contrastThreshold

XYs(cs) == [i \in 1..Len(cs) |-> <<cs[i].position[1], cs[i].position[2]>>]

\* Position, colour and scale of each cube of a run, in creation order.
Placement(cs) ==
  [i \in 1..Len(cs) |-> <<cs[i].position, cs[i].color, cs[i].scale>>]

RunWithinGrid(r) ==
  LET e == EdgeFor(r.params.cubeDensity)
  IN /\ Len(r.cubes) <= e * e
     /\ Cardinality(CellsOf(r.cubes, e)) = Len(r.cubes)
     /\ \A i \in 1..Len(r.cubes) :
          /\ OnCell(r.cubes[i], e)
          /\ Exceeds(SampledDepth(r.depthMap, r.imageData.width, r.imageData.height,
                                  CellOfCube(r.cubes[i], e), e),
                     r.params.contrastThreshold)

\* C2: a sampling run with density d works on a grid of edge floor(20 d),
\* creates at most edge * edge cubes, at most one per grid cell, and none on a
\* cell whose sampled depth is <= contrastThreshold.
C2_GridBound == \A k \in 1..Len(runs) : RunWithinGrid(runs[k])

\* A run on the 2 x 2 grid of density 1/8 (20 d = 2.5) that created a cube and
\* left some cell empty.
C2_Witness ==
  \E k \in 1..Len(runs) :
    /\ runs[k].params.cubeDensity = Rat(1, 8)
    /\ Len(runs[k].cubes) > 0
    /\ Len(runs[k].cubes) < 4

\* C3: whenever a luminance field is present, the live cubes are the cubes of
\* the latest rebuild only, one for exactly each grid cell whose sampled depth
\* in the current field exceeds the current threshold at the current density.
C3_RebuiltOnChange ==
  (wired /\ depthMap # Null) =>
    LET e == EdgeFor(params.cubeDensity)
        expected == ExpectedCells(depthMap, imageData.width, imageData.height,
                                  params.cubeDensity, params.contrastThreshold)
    IN /\ Len(cubes) = Cardinality(expected)
       /\ CellsOf(cubes, e) = expected
       /\ \A i \in 1..Len(cubes) : OnCell(cubes[i], e)
       /\ Len(runs) = 2 =>
            /\ Ids(runs[1].cubes) \cap Ids(cubes) = {}
            /\ Ids(runs[1].cubes) \cap sceneChildren = {}

\* A threshold edit handled after an upload: the earlier cubes were replaced.
C3_Witness ==
  /\ Len(runs) = 2
  /\ Len(runs[1].cubes) > 0
  /\ Len(cubes) > 0
  /\ runs[2].params.contrastThreshold # runs[1].params.contrastThreshold
  /\ runs[2].params = params

\* 2^24: float32 significands are below it.
TwoTo24 == Pow2(24)

RECURSIVE IsPowerOfTwo(_)
IsPowerOfTwo(n) == n = 1 \/ (n > 1 /\ n % 2 = 0 /\ IsPowerOfTwo(n \div 2))

\* The scaling 2^s that brings a significand n >= 1 into [2^23, 2^24).
RECURSIVE ScaleTo24(_)
ScaleTo24(n) == IF 2 * n >= TwoTo24 THEN 1 ELSE 2 * ScaleTo24(2 * n)

\* v is a float32 no further than half a unit in its last place from q.
IsFloat32Near(v, q) ==
  IF v[1] = 0 THEN q[1] = 0
  ELSE /\ IsPowerOfTwo(v[2])
       /\ v[1] < TwoTo24
       /\ 2 * ScaleTo24(v[1]) * Abs(q[1] * v[2] - v[1] * q[2]) <= q[2]

\* (R + G + B) / (3 * 255) of pixel j (1-based, row-major) of the ImageData.
Luminance(img, j) ==
  Rat(img.data[4 * (j - 1) + 1] + img.data[4 * (j - 1) + 2]
        + img.data[4 * (j - 1) + 3], 3 * 255)

InUnitInterval(v) == v[1] >= 0 /\ v[1] <= v[2]

\* C4 (as stated): the depth map has width * height entries and entry i is
\* exactly (R + G + B) / (3 * 255) of pixel i, within [0, 1].
C4_ExactLuminance ==
  depthMap # Null =>
    /\ Len(depthMap) = imageData.width * imageData.height
    /\ \A j \in 1..Len(depthMap) :
         depthMap[j] = Luminance(imageData, j) /\ InUnitInterval(depthMap[j])

\* C4 (amended): the depth map has width * height entries and entry i is the
\* single-precision value nearest to (R + G + B) / (3 * 255) of pixel i,
\* within [0, 1].
C4_RoundedLuminance ==
  depthMap # Null =>
    /\ Len(depthMap) = imageData.width * imageData.height
    /\ \A j \in 1..Len(depthMap) :
         /\ IsFloat32Near(depthMap[j], Luminance(imageData, j))
         /\ InUnitInterval(depthMap[j])

\* A non-square image with a pixel whose luminance is not a float32.
C4_Witness ==
  /\ depthMap # Null
  /\ imageData.width # imageData.height
  /\ \E j \in 1..Len(depthMap) : depthMap[j] # Luminance(imageData, j)

SameInputs(r1, r2) ==
  /\ r1.params = r2.params
  /\ r1.imageData = r2.imageData
  /\ r1.depthMap = r2.depthMap

\* Every attribute of each cube of a run but the object identity.
Attributes(cs) ==
  [i \in 1..Len(cs) |-> <<cs[i].position, cs[i].color, cs[i].scale,
                           cs[i].rotation, cs[i].rotationSpeed>>]

\* The attributes that do not come from Math.random.
FixedAttributes(cs) ==
  [i \in 1..Len(cs) |-> <<cs[i].position, cs[i].color, cs[i].scale,
                           cs[i].rotation>>]

\* C5 (as stated): a second sampling run with identical parameters and
\* luminance field creates the same cubes as the first: same number, cells,
\* positions and per-instance attributes, rotation velocity included.
C5_Idempotent ==
  (Len(runs) = 2 /\ SameInputs(runs[1], runs[2]))
    => Attributes(runs[1].cubes) = Attributes(runs[2].cubes)

\* C5 (amended): a second sampling run with identical parameters, image and
\* luminance field creates the same number of cubes with the same positions,
\* colours, scales and initial orientation; the rotation velocities are drawn
\* anew and need not agree.
C5_IdempotentButVelocity ==
  (Len(runs) = 2 /\ SameInputs(runs[1], runs[2]))
    => /\ Len(runs[1].cubes) = Len(runs[2].cubes)
       /\ FixedAttributes(runs[1].cubes) = FixedAttributes(runs[2].cubes)

\* Two runs on identical inputs whose cubes got different velocities.
C5_Witness ==
  /\ Len(runs) = 2
  /\ SameInputs(runs[1], runs[2])
  /\ Len(runs[2].cubes) > 0
  /\ runs[1].cubes[1].rotationSpeed # runs[2].cubes[1].rotationSpeed

IsFrameStep == frames' = frames + 1

\* A GUI edit that changed pulseStrength or rotationSpeed and nothing else.
IsPulseOrRotationEdit ==
  /\ edits' = edits + 1
  /\ params' # params
  /\ [params' EXCEPT !.pulseStrength = params.pulseStrength,
                     !.rotationSpeed = params.rotationSpeed] = params

IdsInOrder(cs) == [i \in 1..Len(cs) |-> cs[i].id]

\* C6: an edit of pulseStrength or rotationSpeed, and every frame tick, leaves
\* the live cubes the same objects in the same number: nothing is created,
\* removed or detached from the scene.
C6_NoRebuild ==
  [][(IsFrameStep \/ IsPulseOrRotationEdit)
       => /\ IdsInOrder(cubes') = IdsInOrder(cubes)
          /\ sceneChildren' = sceneChildren
          /\ created' = created]_vars

\* Cubes on screen, pulseStrength edited, and a frame rendered afterwards.
C6_Witness ==
  /\ Len(cubes) > 0
  /\ edits = 1
  /\ params.pulseStrength # DefaultParams.pulseStrength
  /\ frames = 1
  /\ frameOutcome = "rendered"

Plus(p, q) == Rat(p[1] * q[2] + q[1] * p[2], p[2] * q[2])
Times(p, q) == Rat(p[1] * q[1], p[2] * q[2])

\* C7: on every rendered frame each cube's rotation grows on each axis by its
\* per-instance velocity times the current rotationSpeed parameter.
C7_RotationScaledByLiveSpeed ==
  [][(IsFrameStep /\ frameOutcome' = "rendered")
       => \A i \in 1..Len(cubes) : \A a \in 1..3 :
            cubes'[i].rotation[a] =
              Plus(cubes[i].rotation[a],
                   Times(cubes[i].rotationSpeed[a], params.rotationSpeed))]_vars

\* The pulse factors of the documented variants: k = 0.2 and k = 1.
PulseFactors == {Rat(1, 5), Rat(1, 1)}

\* C8: on every rendered frame each cube's scale is, on all three axes,
\* (1 + sin(2t) * pulseStrength * k) * cubeSize for the current parameters.
C8_ScaleKeepsCubeSize ==
  [][(IsFrameStep /\ frameOutcome' = "rendered")
       => \E sin \in SinValues, k \in PulseFactors :
            LET scale == Times(Plus(Rat(1, 1), Times(Times(sin, params.pulseStrength), k)),
                               params.cubeSize)
            IN \A i \in 1..Len(cubes) : cubes'[i].scale = <<scale, scale, scale>>]_vars

\* C9: after initialization has succeeded, every frame tick renders the scene.
C9_EveryTickRenders ==
  (phase = "ready" /\ frames > 0) => frameOutcome = "rendered"

\* C10: at most one upload is in flight at any time.
C10_AtMostOneInFlight == Cardinality(inflight) <= 1

\* C11: once script loading is over, initialization has either succeeded or
\* stopped with a diagnostic logged; it never stays pending on a missing
\* container.
C11_FailureLoggedAndAbandoned ==
  phase \notin {"loading", "ready"} => (phase = "aborted" /\ log # {})

\* C12: while no image has been processed (depthMap is null) there is no cube,
\* in the list or in the scene; none has ever been created, no sampling run has
\* taken place and nothing has been logged on an initialized page.
C12_NoImageNoCubes ==
  depthMap = Null =>
    /\ cubes = <<>>
    /\ sceneChildren = {}
    /\ created = 0
    /\ runs = <<>>
    /\ phase = "ready" => log = {}

\* No image yet, the density was edited (updateCubes ran) and a frame passed.
C12_Witness ==
  /\ depthMap = Null
  /\ edits = 1
  /\ params.cubeDensity # DefaultParams.cubeDensity
  /\ frames = 1

\* C13: once every selected file has been read, decoded and processed,
\* imageData, depthMap and the cubes are those of the file selected last.
C13_LastSelectedWins ==
  (uploads > 0 /\ inflight = {}) =>
    LET img == GetImageData(lastFile)
        field == ExtractDepth(img)
    IN /\ imageData = img
       /\ depthMap = field
       /\ CellsOf(cubes, EdgeFor(params.cubeDensity))
            = ExpectedCells(field, img.width, img.height, params.cubeDensity,
                            params.contrastThreshold)

\* C14: the animation loop is scheduled, and animate reaches its update/render
\* step, only when scene, camera, renderer and controls are all defined.
C14_NoFrameBeforeInit ==
  (raf \/ frameOutcome \in {"rendered", "threw"}) => SceneObjects \subseteq defined

\* C15: the cube objects attached to the scene are exactly the cubes of the
\* list, each of them once.
C15_SceneMatchesCubes ==
  /\ sceneChildren = Ids(cubes)
  /\ Cardinality(Ids(cubes)) = Len(cubes)

\* A rebuild replaced a non-empty set of cubes by another one: a frame ran on
\* the first set and the threshold was edited afterwards.
C15_Witness ==
  /\ Len(runs) = 2
  /\ Len(runs[1].cubes) > 0
  /\ Len(cubes) > 0
  /\ Ids(runs[1].cubes) \cap Ids(cubes) = {}
  /\ frames = 1
  /\ edits = 1

\* floor(depth * pixelCount) for the depth sampled on a cube's cell.
ColourIndex(r, c) ==
  LET e == EdgeFor(r.params.cubeDensity)
      depth == SampledDepth(r.depthMap, r.imageData.width, r.imageData.height,
                            CellOfCube(c, e), e)
  IN (depth[1] * (Len(r.imageData.data) \div 4)) \div depth[2]

\* C16: in 'sampled' colour mode the pixel index floor(depth * pixelCount) of
\* every cube a sampling run creates lies inside the pixel buffer.
C16_ColourIndexInBounds ==
  \A k \in 1..Len(runs) :
    runs[k].params.colorMode = "sampled" =>
      \A i \in 1..Len(runs[k].cubes) :
        /\ ColourIndex(runs[k], runs[k].cubes[i]) >= 0
        /\ ColourIndex(runs[k], runs[k].cubes[i]) < Len(runs[k].imageData.data) \div 4

====
